---- MODULE Spec2Model ----
\* Verification model of the Scrapers repository: the Membean scraper
\* (newmembeanscraper/scraper.js, studentsManager.js) and the AlphaRead
\* scraper (alphareadscraper/multi-email-scraper.js, upload-existing-data.js).
EXTENDS Integers, Sequences, FiniteSets, TLC

VARIABLES
    sm_supabase,   \* StudentsManager: Supabase client and what the students query yields
    sm_txt,        \* students.txt on disk
    sm_json,       \* students.json on disk
    sm_result,     \* value returned by getEnabledStudents
    sm_source,     \* which source the returned list was read from
    sm_pc          \* "start" before the call, "done" after it

sm_vars == <<sm_supabase, sm_txt, sm_json, sm_result, sm_source, sm_pc>>

VARIABLES
    te_db,         \* AlphaRead: Supabase client and what the students query yields
    te_txt,        \* emails.txt on disk
    te_json,       \* emails.json on disk
    te_result,     \* value returned by getTargetEmails
    te_source,     \* which source the returned list was read from
    te_pc          \* "start" before the call, "done" after it

te_vars == <<te_db, te_txt, te_json, te_result, te_source, te_pc>>

VARIABLES
    student_data,      \* AlphaRead target table: set of rows
    membean_students,  \* Membean target table: set of rows
    db_nextId,         \* next value of the tables' serial id
    db_hasIndex,       \* whether idx_student_data_email_scraped_at was created
    now,               \* wall clock
    ar_uploaded,       \* AlphaRead student records uploaded with success so far
    mb_inserted,       \* per Membean record, how many successful uploads contained it
    up_calls,          \* number of upload calls made
    ar_uploadCfg,      \* AlphaRead: "off" (ENABLE_DATABASE_UPLOAD not 'true'), "nocreds"
                       \* (enabled, no Supabase client), "on" (enabled, client created)
    mb_supabaseOn,     \* Membean scraper: SUPABASE_URL and SUPABASE_ANON_KEY are set
    ar_console,        \* lines the AlphaRead scripts wrote to the console
    mb_console         \* lines the Membean scraper wrote to the console

VARIABLES
    run,               \* which script this behaviour runs
    mb_students,       \* Membean: studentsToScrape
    mb_i,              \* Membean: loop index i + 1 (0 before the loop)
    mb_pc,             \* Membean: position in scrape()
    allStudentData,    \* Membean: this.allStudentData
    mb_hasData,        \* Membean: the value scrapeAllStudents returned has studentsData
    mb_opsOrder        \* Membean: students in the order page operations were made for them

mb_vars == <<run, mb_students, mb_i, mb_pc, allStudentData, mb_hasData, mb_opsOrder>>

VARIABLES
    ar_targets,        \* AlphaRead: targetEmails
    ar_k,              \* AlphaRead: position of the for-of loop (0 before the loop)
    ar_pc,             \* AlphaRead: position in the script
    ar_results,        \* AlphaRead: results
    ar_processed,      \* AlphaRead: studentsProcessed
    ar_sel,            \* AlphaRead: index of the search selector being tried
    ar_attempt,        \* AlphaRead: attempt
    ar_outcome,        \* AlphaRead: per student of the list, what became of it
    ar_opsOrder,       \* AlphaRead: students in the order page operations were made for them
    ar_file,           \* the student-data-*.json file the run saved
    ub_list,           \* uploadBatchToSupabase: studentsArray
    ub_i,              \* uploadBatchToSupabase: position of its loop
    ub_results,        \* uploadBatchToSupabase: uploadResults
    ub_outcomes,       \* uploadBatchToSupabase: per record of the loop so far, what was done with it
    ub_caller          \* who called uploadBatchToSupabase

ar_vars == <<ar_targets, ar_k, ar_pc, ar_results, ar_processed, ar_sel, ar_attempt,
             ar_outcome, ar_opsOrder, ar_file, ub_list, ub_i, ub_results, ub_outcomes, ub_caller>>

VARIABLES
    ue_dir,            \* upload-existing-data: scrape times of the student-data-*.json files in '.'
    ue_files,          \* upload-existing-data: files
    ue_jsonFile,       \* upload-existing-data: jsonFile
    ue_pc              \* upload-existing-data: position in the file selection

ue_vars == <<ue_dir, ue_files, ue_jsonFile, ue_pc>>

VARIABLES
    origin_main,       \* unified workflow: the commits of origin/main, oldest first
    job_branch,        \* unified workflow: per job, the commits of its checkout's main branch
    job_committed,     \* unified workflow: per job, whether its commit step made a commit
    job_pc             \* unified workflow: per job, the step it is at

git_vars == <<origin_main, job_branch, job_committed, job_pc>>

db_vars == <<student_data, membean_students, db_nextId, db_hasIndex, now,
             ar_uploaded, mb_inserted, up_calls, ar_uploadCfg, mb_supabaseOn,
             ar_console, mb_console>>

\* ---------------------------------------------------------------------
\* Bounds
\* ---------------------------------------------------------------------
MaxLines == 2       \* lines of students.txt
MaxJsonStudents == 2   \* entries of students.json
MaxEmailLines == 2     \* lines of emails.txt
MaxJsonEmails == 2     \* entries of emails.json
MaxDbStudents == 2     \* rows of the AlphaRead students table
MaxUploadCalls == 3    \* upload calls in one behaviour
MaxTicks == 2          \* clock ticks in one behaviour
MaxMembeanData == 2    \* records in one Membean result set
MaxStudents == 2       \* students in the target list of one scraper run
MaxFiles == 2          \* student-data-*.json files in the directory
MaxRuns == 2           \* overlapping runs of the unified workflow

\* ---------------------------------------------------------------------
\* Strings.  A name is the sequence of its blank-separated words; the
\* Membean format "Last, First" carries the comma as a token of its own.
\* ---------------------------------------------------------------------
SupabaseNames == << <<"Ann">>, <<"Ann", "Lee">>, <<"Bo", "Ray">> >>   \* ordered by name

ExampleName1 == <<"Student", "Name", "1">>
ExampleName2 == <<"Student", "Name", "2">>
LocalNames == { <<"Lee", ",", "Ann">>, <<"Ray", ",", "Bo">>, ExampleName1 }

SeqsUpTo(S, n) == UNION { [1..k -> S] : k \in 0..n }

\* ---------------------------------------------------------------------
\* StudentsManager (newmembeanscraper/studentsManager.js)
\* ---------------------------------------------------------------------

\* "First Last" -> "Last, First"; a one-word name is returned as it is
TransformName(name) ==
    IF Len(name) >= 2
    THEN <<name[Len(name)], ",">> \o SubSeq(name, 1, Len(name) - 1)
    ELSE name

readStudentsFromSupabase(sb) ==
    IF ~sb.configured THEN <<>>
    ELSE IF sb.outcome # "rows" THEN <<>>
    ELSE [i \in DOMAIN sb.rows |-> TransformName(sb.rows[i].name)]

IsActiveLine(line) == line.text # <<>> /\ ~line.hash
IsNotExample(line) == line.text # ExampleName1 /\ line.text # ExampleName2

readStudentsFromTXT(f) ==
    IF f.state # "ok" THEN <<>>
    ELSE LET kept == SelectSeq(SelectSeq(f.lines, IsActiveLine), IsNotExample)
         IN  [i \in DOMAIN kept |-> kept[i].text]

IsEnabledStudent(student) == student.enabled

readStudentsFromJSON(f) ==
    IF f.state # "ok" THEN <<>>
    ELSE SelectSeq(f.students, IsEnabledStudent)

\* getEnabledStudents without the fall-back when Supabase is configured
getEnabledStudents_NoFallback(sb, txt, json) ==
    LET supabaseStudents == readStudentsFromSupabase(sb)
        txtStudents == readStudentsFromTXT(txt)
    IN  IF sb.configured
        THEN [students |-> supabaseStudents,
              source |-> IF Len(supabaseStudents) > 0 THEN "supabase" ELSE "none"]
        ELSE IF Len(txtStudents) > 0
        THEN [students |-> txtStudents, source |-> "txt"]
        ELSE [students |-> <<>>, source |-> "none"]

getEnabledStudents(sb, txt, json) ==
    LET supabaseStudents == IF sb.configured THEN readStudentsFromSupabase(sb) ELSE <<>>
        txtStudents == readStudentsFromTXT(txt)
        jsonStudents == readStudentsFromJSON(json)
    IN  IF sb.configured /\ Len(supabaseStudents) > 0
        THEN [students |-> supabaseStudents, source |-> "supabase"]
        ELSE IF Len(txtStudents) > 0
        THEN [students |-> txtStudents, source |-> "txt"]
        ELSE IF Len(jsonStudents) > 0
        THEN [students |-> [i \in DOMAIN jsonStudents |-> jsonStudents[i].name],
              source |-> "json"]
        ELSE [students |-> <<>>, source |-> "none"]

\* The students table: a selection of SupabaseNames in name order (the query
\* orders by name, the column is UNIQUE), each row enabled or not.
SupabaseTables ==
    { LET all == [i \in 1..Len(SupabaseNames) |-> [name |-> SupabaseNames[i], enabled |-> en[i]]]
          kept == SelectSeq([i \in 1..Len(SupabaseNames) |-> i], LAMBDA i : pr[i])
      IN  [k \in DOMAIN kept |-> all[kept[k]]] :
        en \in [1..Len(SupabaseNames) -> BOOLEAN], pr \in [1..Len(SupabaseNames) -> BOOLEAN] }

SupabaseStates ==
    { [configured |-> FALSE, outcome |-> "rows", rows |-> <<>>] }
    \cup { [configured |-> TRUE, outcome |-> o, rows |-> <<>>] : o \in {"error", "throws"} }
    \cup { [configured |-> TRUE, outcome |-> "rows", rows |-> t] : t \in SupabaseTables }

TxtLines == { [text |-> n, hash |-> h] : n \in LocalNames, h \in BOOLEAN }
            \cup { [text |-> <<>>, hash |-> FALSE] }

\* each student is on at most one line of the file
TxtFiles ==
    { [state |-> s, lines |-> <<>>] : s \in {"absent", "unreadable"} }
    \cup { [state |-> "ok", lines |-> l] :
            l \in { x \in SeqsUpTo(TxtLines, MaxLines) :
                      \A i, j \in DOMAIN x :
                          (i # j /\ x[i].text # <<>>) => x[i].text # x[j].text } }

JsonEntries == { [name |-> n, enabled |-> e] : n \in LocalNames, e \in BOOLEAN }

\* addStudent keeps one entry per name
JsonFiles ==
    { [state |-> s, students |-> <<>>] : s \in {"absent", "invalid"} }
    \cup { [state |-> "ok", students |-> l] :
            l \in { x \in SeqsUpTo(JsonEntries, MaxJsonStudents) :
                      \A i, j \in DOMAIN x : i # j => x[i].name # x[j].name } }

SmInit ==
    /\ sm_supabase \in SupabaseStates
    /\ sm_txt \in TxtFiles
    /\ sm_json \in JsonFiles
    /\ sm_result = <<>>
    /\ sm_source = "none"
    /\ sm_pc = "start"

GetEnabledStudents ==
    /\ sm_pc = "start"
    /\ LET r == getEnabledStudents(sm_supabase, sm_txt, sm_json)
       IN  /\ sm_result' = r.students
           /\ sm_source' = r.source
    /\ sm_pc' = "done"
    /\ UNCHANGED <<sm_supabase, sm_txt, sm_json>>

\* ---------------------------------------------------------------------
\* Claims about getEnabledStudents
\* ---------------------------------------------------------------------
SupaHasStudents ==
    sm_supabase.configured /\ sm_supabase.outcome = "rows" /\ sm_supabase.rows # <<>>

TxtHasStudents ==
    /\ sm_txt.state = "ok"
    /\ \E i \in DOMAIN sm_txt.lines :
          /\ sm_txt.lines[i].text # <<>>
          /\ ~sm_txt.lines[i].hash
          /\ sm_txt.lines[i].text \notin {ExampleName1, ExampleName2}

JsonHasStudents ==
    sm_json.state = "ok" /\ \E i \in DOMAIN sm_json.students : sm_json.students[i].enabled

\* C7: getEnabledStudents returns the Supabase students whenever Supabase is
\* configured and yields some; it returns students of a local file only when
\* Supabase is not configured or yields none; and it returns the empty list
\* only when no source (Supabase, students.txt, students.json) yields a student.
C7_SupabaseFirstThenFiles ==
    sm_pc = "done" =>
        /\ SupaHasStudents =>
              /\ sm_source = "supabase"
              /\ Len(sm_result) = Len(sm_supabase.rows)
              /\ \A i \in DOMAIN sm_result :
                    sm_result[i] = TransformName(sm_supabase.rows[i].name)
        /\ sm_source \in {"txt", "json"} => ~SupaHasStudents
        /\ sm_result = <<>> => ~SupaHasStudents /\ ~TxtHasStudents /\ ~JsonHasStudents

\* Supabase is configured but the query fails, and the list comes from a file
C7_Witness ==
    /\ sm_pc = "done"
    /\ sm_supabase.configured /\ sm_supabase.outcome = "error"
    /\ sm_source = "json" /\ sm_result # <<>>

\* C8: among the local files students.json is read first; students.txt is
\* used only when students.json provides no students.
C8_JsonBeforeTxt ==
    (sm_pc = "done" /\ sm_source \in {"txt", "json"}) =>
        /\ JsonHasStudents => sm_source = "json"
        /\ sm_source = "txt" => ~JsonHasStudents

\* names, in the form getEnabledStudents returns them, of the students the
\* given source marks disabled
DisabledNames(source) ==
    CASE source = "supabase" ->
            { TransformName(sm_supabase.rows[i].name) :
                i \in { j \in DOMAIN sm_supabase.rows : ~sm_supabase.rows[j].enabled } }
      [] source = "txt" ->
            { sm_txt.lines[i].text : i \in { j \in DOMAIN sm_txt.lines : sm_txt.lines[j].hash } }
      [] source = "json" ->
            { sm_json.students[i].name :
                i \in { j \in DOMAIN sm_json.students : ~sm_json.students[j].enabled } }
      [] OTHER -> {}

\* C9: getEnabledStudents never returns a student marked disabled in the
\* source the list was read from (enabled=false in the students table or in
\* students.json, a '#'-prefixed line in students.txt).
C9_NoDisabledStudentReturned ==
    sm_pc = "done" =>
        \A i \in DOMAIN sm_result : sm_result[i] \notin DisabledNames(sm_source)

\* ---------------------------------------------------------------------
\* AlphaRead target list (alphareadscraper/multi-email-scraper.js)
\* An e-mail string is its part before the first '@', whether it has an '@',
\* and what follows it.
\* ---------------------------------------------------------------------
EmailStrings ==
    { [user |-> "amy", at |-> TRUE, domain |-> "school.org"],
      [user |-> "student1", at |-> TRUE, domain |-> "example.com"],
      [user |-> "bob", at |-> FALSE, domain |-> ""] }

NullEmail == [user |-> "", at |-> FALSE, domain |-> "null"]
BlankLine == [user |-> "", at |-> FALSE, domain |-> ""]

IncludesExampleCom(e) == e.domain = "example.com"
IncludesAt(e) == e.at

\* email.split('@')[0]
NameFromEmail(e) == e.user

IsActiveEmailLine(line) == line.text # BlankLine /\ ~line.hash

readEmailsFromTxt(f) ==
    IF f.state # "ok" THEN <<>>
    ELSE LET kept == SelectSeq(f.lines, IsActiveEmailLine)
         IN  [i \in DOMAIN kept |-> [email |-> kept[i].text, name |-> NameFromEmail(kept[i].text)]]

readEmailsFromJson(f) ==
    IF f.state # "ok" THEN <<>>
    ELSE f.emails

HasEmail(row) == row.email # NullEmail

fetchStudentsFromDatabase(db) ==
    IF ~db.client THEN <<>>
    ELSE IF db.outcome # "rows" THEN <<>>
    ELSE LET students == SelectSeq(db.table, HasEmail)
         IN  [i \in DOMAIN students |-> [email |-> students[i].email, name |-> students[i].name]]

IsRealEmail(entry) == ~IncludesExampleCom(entry.email) /\ IncludesAt(entry.email)

HasRealEmails(list) == \E i \in DOMAIN list : IsRealEmail(list[i])

\* getTargetEmails taking any non-empty emails.txt, real addresses or not
getTargetEmails_NoRealCheck(db, txt, json) ==
    LET dbStudents == fetchStudentsFromDatabase(db)
        txtEmails == readEmailsFromTxt(txt)
        jsonEmails == readEmailsFromJson(json)
    IN  IF Len(dbStudents) > 0 THEN [list |-> dbStudents, source |-> "db"]
        ELSE IF Len(txtEmails) > 0 THEN [list |-> txtEmails, source |-> "txt"]
        ELSE IF Len(jsonEmails) > 0 THEN [list |-> jsonEmails, source |-> "json"]
        ELSE [list |-> <<>>, source |-> "none"]

getTargetEmails(db, txt, json) ==
    LET dbStudents == fetchStudentsFromDatabase(db)
        txtEmails == readEmailsFromTxt(txt)
        jsonEmails == readEmailsFromJson(json)
        txtHasRealEmails == HasRealEmails(txtEmails)
        jsonHasRealEmails == HasRealEmails(jsonEmails)
    IN  IF Len(dbStudents) > 0 THEN [list |-> dbStudents, source |-> "db"]
        ELSE IF txtHasRealEmails THEN [list |-> txtEmails, source |-> "txt"]
        ELSE IF jsonHasRealEmails THEN [list |-> jsonEmails, source |-> "json"]
        ELSE IF Len(txtEmails) > 0 THEN [list |-> txtEmails, source |-> "txt"]
        ELSE IF Len(jsonEmails) > 0 THEN [list |-> jsonEmails, source |-> "json"]
        ELSE [list |-> <<>>, source |-> "none"]

DbNames == {"Amy Poe", "Bob Fox"}

DbRows == { [name |-> n, email |-> e] : n \in DbNames, e \in EmailStrings \cup {NullEmail} }

\* the query orders by name; students_email_key makes e-mails unique
DbStates ==
    { [client |-> FALSE, outcome |-> "rows", table |-> <<>>] }
    \cup { [client |-> TRUE, outcome |-> o, table |-> <<>>] : o \in {"error", "throws"} }
    \cup { [client |-> TRUE, outcome |-> "rows", table |-> t] :
            t \in { x \in SeqsUpTo(DbRows, MaxDbStudents) :
                      \A i, j \in DOMAIN x :
                          i < j => /\ x[i].name # "Bob Fox" \/ x[j].name # "Amy Poe"
                                   /\ x[i].email = NullEmail \/ x[i].email # x[j].email } }

EmailLines == { [text |-> e, hash |-> h] : e \in EmailStrings, h \in BOOLEAN }
              \cup { [text |-> BlankLine, hash |-> FALSE] }

EmailTxtFiles ==
    { [state |-> "missing", lines |-> <<>>] }
    \cup { [state |-> "ok", lines |-> l] : l \in SeqsUpTo(EmailLines, MaxEmailLines) }

JsonEmailEntries == { [email |-> e, name |-> "Student One"] : e \in EmailStrings }

\* "nokey": valid JSON without an emails member
EmailJsonFiles ==
    { [state |-> s, emails |-> <<>>] : s \in {"missing", "invalid", "nokey"} }
    \cup { [state |-> "ok", emails |-> l] : l \in SeqsUpTo(JsonEmailEntries, MaxJsonEmails) }

TeInit ==
    /\ te_db \in DbStates
    /\ te_txt \in EmailTxtFiles
    /\ te_json \in EmailJsonFiles
    /\ te_result = <<>>
    /\ te_source = "none"
    /\ te_pc = "start"

GetTargetEmails ==
    /\ te_pc = "start"
    /\ LET r == getTargetEmails(te_db, te_txt, te_json)
       IN  /\ te_result' = r.list
           /\ te_source' = r.source
    /\ te_pc' = "done"
    /\ UNCHANGED <<te_db, te_txt, te_json>>

\* ---------------------------------------------------------------------
\* Claim about getTargetEmails
\* ---------------------------------------------------------------------
DbYield ==
    IF te_db.client /\ te_db.outcome = "rows"
    THEN SelectSeq(te_db.table, LAMBDA r : r.email # NullEmail)
    ELSE <<>>

TxtEmailTexts ==
    IF te_txt.state = "ok"
    THEN LET l == SelectSeq(te_txt.lines, LAMBDA x : x.text # BlankLine /\ ~x.hash)
         IN  [i \in DOMAIN l |-> l[i].text]
    ELSE <<>>

JsonEmailTexts ==
    IF te_json.state = "ok"
    THEN [i \in DOMAIN te_json.emails |-> te_json.emails[i].email]
    ELSE <<>>

HoldsRealEmail(texts) ==
    \E i \in DOMAIN texts : texts[i].at /\ texts[i].domain # "example.com"

ResultEmails == [i \in DOMAIN te_result |-> te_result[i].email]

ExpectedEmailSource ==
    IF DbYield # <<>> THEN "db"
    ELSE IF HoldsRealEmail(TxtEmailTexts) THEN "txt"
    ELSE IF HoldsRealEmail(JsonEmailTexts) THEN "json"
    ELSE IF TxtEmailTexts # <<>> THEN "txt"
    ELSE IF JsonEmailTexts # <<>> THEN "json"
    ELSE "none"

\* C10: getTargetEmails returns the database students whenever the database
\* yields at least one; otherwise emails.txt if it holds a real
\* (non-example.com) e-mail, else emails.json if it holds a real e-mail, else
\* emails.txt if non-empty, else emails.json if non-empty, else the empty list.
C10_TargetEmailPriority ==
    te_pc = "done" =>
        /\ te_source = ExpectedEmailSource
        /\ te_source = "db" =>
              /\ Len(te_result) = Len(DbYield)
              /\ \A i \in DOMAIN te_result :
                    te_result[i].email = DbYield[i].email /\ te_result[i].name = DbYield[i].name
        /\ te_source = "txt" => ResultEmails = TxtEmailTexts
        /\ te_source = "json" => te_result = te_json.emails
        /\ te_source = "none" => te_result = <<>>

\* emails.txt holds only example addresses, emails.json a real one: the JSON list wins
C10_Witness ==
    /\ te_pc = "done"
    /\ DbYield = <<>>
    /\ TxtEmailTexts # <<>>
    /\ te_source = "json"
    /\ HoldsRealEmail(ResultEmails)

\* ---------------------------------------------------------------------
\* Console.  The output is kept as the set of lines written so far; a line is
\* its text, the numbers interpolated into it and the student names or
\* e-mail addresses interpolated into it.
\* ---------------------------------------------------------------------
Line(t, n, m, who) == [t |-> t, n |-> n, m |-> m, who |-> who]

Say(t) == Line(t, 0, 0, {})

\* ---------------------------------------------------------------------
\* Uploads to the datastore
\* ---------------------------------------------------------------------

\* A scrapedAt string: "us" is toLocaleString('en-US') "MM/DD/YYYY, HH:mm:ss",
\* "iso" is Date.toISOString() (what extractStudentDetailData's catch stores).
\* Times are counted in hours.
ScrapedAtStrings ==
    { [fmt |-> "us", day |-> 1, hour |-> h] : h \in {9, 24} }
    \cup { [fmt |-> "iso", day |-> 1, hour |-> 9] }

ClockStart == 48

\* lines 68-77: split on ', ', '/' and ':' and rebuild an ISO string; a string
\* without ', ' (timePart undefined) or with an hour Date rejects throws
DateParses(s) == s.fmt = "us" /\ s.hour \in 0..23

\* lines 68-81: the catch takes the current time
ParseScrapedAt(s, clock) ==
    IF DateParses(s)
    THEN s.day * 24 + s.hour
    ELSE clock

ArEmails == <<"amy@school.org", "bob@school.org", "cy@school.org", "di@school.org">>

NoError == ""

ArRecords ==
    { [email |-> ArEmails[i], scrapedAt |-> s, averageScore |-> "62.2%", error |-> NoError] :
        i \in 1..2, s \in ScrapedAtStrings }

DbRecord(studentData, clock) ==
    [email |-> studentData.email,
     scraped_at |-> ParseScrapedAt(studentData.scrapedAt, clock),
     average_score |-> studentData.averageScore]

SameKey(row, rec) == row.email = rec.email /\ row.scraped_at = rec.scraped_at

\* supabase.from(table).upsert(rec, {onConflict: 'email,scraped_at'})
Upsert(table, rec, id) ==
    IF \E row \in table : SameKey(row, rec)
    THEN { IF SameKey(row, rec) THEN rec @@ [id |-> row.id] ELSE row : row \in table }
    ELSE table \cup { rec @@ [id |-> id] }

\* an insert that skips records whose content is already in the table
InsertAll_SkipExisting(table, rows, id) ==
    table \cup { rows[i] @@ [id |-> id + i - 1] :
                   i \in { k \in DOMAIN rows :
                             ~\E row \in table :
                                 [f \in DOMAIN rows[k] |-> row[f]] = rows[k] } }

\* supabase.from(table).insert(rows): one new row per element
InsertAll(table, rows, id) ==
    table \cup { rows[i] @@ [id |-> id + i - 1] : i \in DOMAIN rows }

\* AlphaRead uploadToSupabase(studentData).  env is what the request meets:
\* "ok", "error" (an error object comes back) or "throws".  With the unique
\* index the upsert updates or inserts; without it ON CONFLICT has no
\* constraint to match and an error comes back.
uploadToSupabase(studentData, table, id, clock, enabled, hasIndex, env) ==
    IF ~enabled
    THEN [success |-> FALSE, table |-> table, id |-> id,
          lines |-> {Say("Database upload is disabled")}]
    ELSE LET parseLines == IF DateParses(studentData.scrapedAt) THEN {}
                           ELSE {Say("Date parsing error for student, using current time:")}
             start == parseLines \cup {Say("Uploading student to table")}
         IN  IF env = "throws"
             THEN [success |-> FALSE, table |-> table, id |-> id,
                   lines |-> start \cup {Say("Database upload failed for student:")}]
             ELSE IF env = "error" \/ ~hasIndex
             THEN [success |-> FALSE, table |-> table, id |-> id,
                   lines |-> start \cup {Say("Database upload error for student:")}]
             ELSE [success |-> TRUE,
                   table |-> Upsert(table, DbRecord(studentData, clock), id),
                   id |-> id + 1,
                   lines |-> start \cup {Say("Successfully uploaded student to database")}]

RequestOutcomes == {"ok", "error", "throws"}

\* one call of uploadToSupabase outside a batch
AlphaUploadToSupabase(studentData, env) ==
    /\ up_calls < MaxUploadCalls
    /\ up_calls' = up_calls + 1
    /\ LET r == uploadToSupabase(studentData, student_data, db_nextId, now,
                                 ar_uploadCfg = "on", db_hasIndex, env)
       IN  /\ student_data' = r.table
           /\ db_nextId' = r.id
           /\ ar_console' = ar_console \cup r.lines
           /\ ar_uploaded' = IF r.success THEN ar_uploaded \cup {studentData} ELSE ar_uploaded
    /\ UNCHANGED <<membean_students, db_hasIndex, now, mb_inserted, ar_uploadCfg,
                   mb_supabaseOn, mb_console>>

AlphaUpload ==
    \E studentData \in ArRecords, env \in RequestOutcomes : AlphaUploadToSupabase(studentData, env)

NoTraining == -1

MembeanRecords ==
    { [studentName |-> "Lee, Ann", url |-> "u1", timestamp |-> 40, recentTraining |-> 2, error |-> NoError],
      [studentName |-> "Ray, Bo", url |-> "u2", timestamp |-> 41, recentTraining |-> 0, error |-> NoError],
      [studentName |-> "Poe, Cy", url |-> "", timestamp |-> 42, recentTraining |-> NoTraining, error |-> "not_found"] }

MembeanData ==
    { x \in SeqsUpTo(MembeanRecords, MaxMembeanData) :
        \A i, j \in DOMAIN x : i # j => x[i] # x[j] }

IsValidStudent(student) == student.studentName # "" /\ student.error = NoError

\* student.recentTraining || []
SupabaseData(studentsData) ==
    LET valid == SelectSeq(studentsData, IsValidStudent)
    IN  [i \in DOMAIN valid |->
            [url |-> valid[i].url, timestamp |-> valid[i].timestamp,
             student_name |-> valid[i].studentName,
             recent_training |-> IF valid[i].recentTraining = NoTraining THEN 0
                                 ELSE valid[i].recentTraining]]

SumTraining(rows) ==
    LET F[k \in 0..Len(rows)] == IF k = 0 THEN 0 ELSE F[k - 1] + rows[k].recent_training
    IN  F[Len(rows)]

\* Membean uploadToSupabase(data).  hasData: data.studentsData is an array.
\* Nothing is sent when no record is valid; otherwise one insert of all valid
\* records, which succeeds or fails as a whole.
mbUploadToSupabase(hasData, studentsData, table, id, configured, env) ==
    IF ~configured
    THEN [success |-> FALSE, table |-> table, id |-> id,
          lines |-> {Say("Supabase not configured. Skipping upload...")}]
    ELSE IF ~hasData
    THEN [success |-> FALSE, table |-> table, id |-> id,
          lines |-> {Say("Uploading data directly to Supabase..."),
                     Say("Error uploading to Supabase:")}]
    ELSE LET supabaseData == SupabaseData(studentsData)
             start == {Say("Uploading data directly to Supabase..."),
                       Line("Prepared valid student records", Len(supabaseData), 0, {})}
         IN  IF Len(supabaseData) = 0
             THEN [success |-> FALSE, table |-> table, id |-> id,
                   lines |-> start \cup {Say("No valid student data to upload")}]
             ELSE IF env # "ok"
             THEN [success |-> FALSE, table |-> table, id |-> id,
                   lines |-> start \cup {Say("Error uploading to Supabase:")}]
             ELSE [success |-> TRUE,
                   table |-> InsertAll(table, supabaseData, id),
                   id |-> id + Len(supabaseData),
                   lines |-> start \cup
                       {Say("Successfully uploaded student data to Supabase!"),
                        Line("Uploaded student records", Len(supabaseData), 0, {}),
                        Line("Upload Summary", Len(supabaseData), SumTraining(supabaseData), {})}]

CountInserted(counts, hasData, studentsData, success) ==
    IF ~success \/ ~hasData THEN counts
    ELSE LET supabaseData == SupabaseData(studentsData)
         IN  [r \in DOMAIN counts |->
                 IF \E i \in DOMAIN supabaseData : supabaseData[i] = r
                 THEN counts[r] + 1 ELSE counts[r]]

\* one call of the Membean uploadToSupabase on a result set
MembeanUploadToSupabase(studentsData, env) ==
    /\ up_calls < MaxUploadCalls
    /\ up_calls' = up_calls + 1
    /\ LET r == mbUploadToSupabase(TRUE, studentsData, membean_students, db_nextId,
                                   mb_supabaseOn, env)
       IN  /\ membean_students' = r.table
           /\ db_nextId' = r.id
           /\ mb_console' = mb_console \cup r.lines
           /\ mb_inserted' = CountInserted(mb_inserted, TRUE, studentsData, r.success)
    /\ UNCHANGED <<student_data, db_hasIndex, now, ar_uploaded, ar_uploadCfg,
                   mb_supabaseOn, ar_console>>

MembeanUpload ==
    \E studentsData \in MembeanData, env \in RequestOutcomes :
        MembeanUploadToSupabase(studentsData, env)

Tick ==
    /\ now < ClockStart + MaxTicks
    /\ now' = now + 1
    /\ UNCHANGED <<student_data, membean_students, db_nextId, db_hasIndex,
                   ar_uploaded, mb_inserted, up_calls, ar_uploadCfg, mb_supabaseOn,
                   ar_console, mb_console>>

MembeanRowContents ==
    { [url |-> r.url, timestamp |-> r.timestamp, student_name |-> r.studentName,
       recent_training |-> r.recentTraining] : r \in { x \in MembeanRecords : IsValidStudent(x) } }

DbInit ==
    /\ student_data = {}
    /\ membean_students = {}
    /\ db_nextId = 1
    /\ db_hasIndex \in BOOLEAN
    /\ now = ClockStart
    /\ ar_uploaded = {}
    /\ mb_inserted = [r \in MembeanRowContents |-> 0]
    /\ up_calls = 0
    /\ ar_uploadCfg \in {"off", "nocreds", "on"}
    /\ mb_supabaseOn \in BOOLEAN
    /\ ar_console = {}
    /\ mb_console = {}

DbIdle ==
    /\ student_data = {}
    /\ membean_students = {}
    /\ db_nextId = 1
    /\ db_hasIndex = TRUE
    /\ now = ClockStart
    /\ ar_uploaded = {}
    /\ mb_inserted = [r \in MembeanRowContents |-> 0]
    /\ up_calls = 0
    /\ ar_uploadCfg = "off"
    /\ mb_supabaseOn = FALSE
    /\ ar_console = {}
    /\ mb_console = {}

\* ---------------------------------------------------------------------
\* Membean scraper run (newmembeanscraper/scraper.js: scrape, scrapeAllStudents,
\* the main block)
\* ---------------------------------------------------------------------
MbNames == <<"Lee, Ann", "Ray, Bo", "Poe, Cy", "Fox, Di">>

\* what getEnabledStudents hands to the scraper: a list of distinct names
MbStudentLists == { [i \in 1..n |-> MbNames[i]] : n \in 0..MaxStudents }

\* a page operation for student i joins the order when it is not the
\* continuation of the previous operation's student
Touch(order, i) ==
    IF order # <<>> /\ order[Len(order)] = i THEN order ELSE Append(order, i)

\* this.allStudentData.push(rec)
RecordOutcome(data, rec) == Append(data, rec)

\* end of a loop iteration
NextStudent(i, n) ==
    IF i < n THEN [pc |-> "tab", i |-> i + 1] ELSE [pc |-> "finish", i |-> i]

\* a catch block that leaves the loop
NextAfterError_Break(i, n) == [pc |-> "finish", i |-> i]

\* the catch block (lines 395-405) falls through to the next iteration
NextAfterError(i, n) == NextStudent(i, n)

ErrorRecord(name, msg, clock) ==
    [studentName |-> name, url |-> "", timestamp |-> clock,
     recentTraining |-> NoTraining, error |-> msg]

CatchLine(name) == Line("Error with NAME: MSG", 0, 0, {name})

mb_quiet == <<student_data, membean_students, db_nextId, db_hasIndex, now, ar_uploaded,
              mb_inserted, up_calls, ar_uploadCfg, mb_supabaseOn, ar_console>>

\* scrape() up to the loop: init, login, getEnabledStudents, navigateToClass
MbStart ==
    /\ run = "membean" /\ mb_pc = "start"
    /\ \/ /\ mb_pc' = "failed"
          /\ mb_console' = mb_console \cup {Say("Scraping failed:"), Say("=== SCRAPING FAILED ===")}
          /\ UNCHANGED <<mb_i, mb_hasData>>
       \/ /\ Len(mb_students) = 0
          /\ mb_console' = mb_console \cup {Say("No students found in any source.")}
          /\ mb_pc' = "upload"
          /\ mb_hasData' = FALSE
          /\ UNCHANGED mb_i
       \/ /\ Len(mb_students) > 0
          /\ mb_console' = mb_console \cup
                {Line("Found students to scrape:", Len(mb_students), 0,
                      { mb_students[k] : k \in DOMAIN mb_students }),
                 Say("Navigating to dashboard...")}
          /\ mb_pc' = "tab"
          /\ mb_i' = 1
          /\ mb_hasData' = TRUE
    /\ UNCHANGED <<run, mb_students, allStudentData, mb_opsOrder, mb_quiet>>

\* loop header and navigateToStudentsTab; a throw goes to the catch block
MbNavigateToStudentsTab ==
    /\ run = "membean" /\ mb_pc = "tab"
    /\ LET name == mb_students[mb_i]
           head == {Line("[I/N] NAME", mb_i, Len(mb_students), {name}),
                    Say("Looking for Students tab...")}
       IN  \/ /\ mb_console' = mb_console \cup head \cup
                     {Say("Clicking on Students tab..."),
                      Say("Successfully navigated to Students tab")}
              /\ mb_pc' = "click"
              /\ UNCHANGED allStudentData
           \/ /\ mb_console' = mb_console \cup head \cup {CatchLine(name)}
              /\ allStudentData' = RecordOutcome(allStudentData, ErrorRecord(name, "Timeout", now))
              /\ mb_pc' = "recover"
    /\ mb_opsOrder' = Touch(mb_opsOrder, mb_i)
    /\ UNCHANGED <<run, mb_students, mb_i, mb_hasData, mb_quiet>>

\* clickStudentByName and, when the student is not in the table, the else
\* branch of the loop body
MbClickStudentByName ==
    /\ run = "membean" /\ mb_pc = "click"
    /\ LET name == mb_students[mb_i]
           head == {Line("Looking for student: NAME", 0, 0, {name})}
       IN  \/ /\ mb_console' = mb_console \cup head \cup {Line("Clicked student: NAME", 0, 0, {name})}
              /\ mb_pc' = "scrape"
              /\ UNCHANGED <<allStudentData, mb_i>>
           \/ /\ mb_console' = mb_console \cup head \cup
                     {Line("Could not find student: NAME", 0, 0, {name}),
                      Line("Skipping NAME - not found", 0, 0, {name})}
              /\ allStudentData' = RecordOutcome(allStudentData, ErrorRecord(name, "not_found", now))
              /\ mb_pc' = NextStudent(mb_i, Len(mb_students)).pc
              /\ mb_i' = NextStudent(mb_i, Len(mb_students)).i
           \/ /\ mb_console' = mb_console \cup head \cup {CatchLine(name)}
              /\ allStudentData' = RecordOutcome(allStudentData, ErrorRecord(name, "Timeout", now))
              /\ mb_pc' = "recover"
              /\ UNCHANGED mb_i
    /\ mb_opsOrder' = Touch(mb_opsOrder, mb_i)
    /\ UNCHANGED <<run, mb_students, mb_hasData, mb_quiet>>

\* the name the student page shows (h1), or 'Unknown' without such an element
PageNames(name) == {name, "Unknown"}

\* scrapeStudentData and the push of its result
MbScrapeStudentData ==
    /\ run = "membean" /\ mb_pc = "scrape"
    /\ LET name == mb_students[mb_i]
           head == {Line("Collecting data for: NAME", 0, 0, {name})}
       IN  \/ \E pageName \in PageNames(name), extractError \in {NoError, "Error extracting data"},
                 sessions \in {2}, shot \in BOOLEAN :
                 /\ mb_console' = mb_console \cup head \cup
                        { IF shot THEN Line("Data collected for: NAME (K sessions)", sessions, 0, {name})
                          ELSE Line("Screenshot failed for: NAME", 0, 0, {name}) }
                 /\ allStudentData' = RecordOutcome(allStudentData,
                        [studentName |-> pageName, url |-> "student-page", timestamp |-> now,
                         recentTraining |-> sessions, error |-> extractError])
                 /\ mb_pc' = "back"
           \/ /\ mb_console' = mb_console \cup head \cup {CatchLine(name)}
              /\ allStudentData' = RecordOutcome(allStudentData, ErrorRecord(name, "Timeout", now))
              /\ mb_pc' = "recover"
    /\ mb_opsOrder' = Touch(mb_opsOrder, mb_i)
    /\ UNCHANGED <<run, mb_students, mb_i, mb_hasData, mb_quiet>>

\* navigateBackToClass, which catches its own failure, and the loop's step
MbNavigateBackToClass ==
    /\ run = "membean" /\ mb_pc \in {"back", "recover"}
    /\ \E ok \in BOOLEAN :
          mb_console' = mb_console \cup
              {Say("Going back to class..."),
               IF ok THEN Say("Back at class page") ELSE Say("Navigation back failed:")}
    /\ LET next == IF mb_pc = "back" THEN NextStudent(mb_i, Len(mb_students))
                   ELSE NextAfterError(mb_i, Len(mb_students))
       IN  mb_pc' = next.pc /\ mb_i' = next.i
    /\ mb_opsOrder' = Touch(mb_opsOrder, mb_i)
    /\ UNCHANGED <<run, mb_students, allStudentData, mb_hasData, mb_quiet>>

\* the loop is over: scrapeAllStudents returns
MbFinish ==
    /\ run = "membean" /\ mb_pc = "finish"
    /\ mb_console' = mb_console \cup {Line("=== Completed scraping N students ===", Len(mb_students), 0, {})}
    /\ mb_pc' = "upload"
    /\ UNCHANGED <<run, mb_students, mb_i, allStudentData, mb_hasData, mb_opsOrder, mb_quiet>>

\* scrape() after scrapeAllStudents: uploadToSupabase(data), then close()
MbUpload ==
    /\ run = "membean" /\ mb_pc = "upload"
    /\ \E env \in RequestOutcomes :
          LET r == mbUploadToSupabase(mb_hasData, allStudentData, membean_students,
                                      db_nextId, mb_supabaseOn, env)
          IN  /\ membean_students' = r.table
              /\ db_nextId' = r.id
              /\ mb_inserted' = CountInserted(mb_inserted, mb_hasData, allStudentData, r.success)
              /\ mb_console' = mb_console \cup r.lines \cup
                    {Say("Scraping completed - uploading to Supabase..."),
                     IF r.success THEN Say("Complete! Data scraped and uploaded to Supabase.")
                     ELSE Say("Scraping completed but upload failed."),
                     Say("Browser closed")}
    /\ mb_pc' = "main"
    /\ UNCHANGED <<run, mb_students, mb_i, allStudentData, mb_hasData, mb_opsOrder,
                   student_data, db_hasIndex, now, ar_uploaded, up_calls, ar_uploadCfg,
                   mb_supabaseOn, ar_console>>

IsStudentName(x) == \E k \in DOMAIN MbNames : MbNames[k] = x

\* the then-callback of the main block: totals, training summary, screenshot list
MbMain ==
    /\ run = "membean" /\ mb_pc = "main"
    /\ LET data == IF mb_hasData THEN allStudentData ELSE <<>>
           withTraining == SelectSeq(data, LAMBDA st : st.recentTraining # NoTraining)
           withName == SelectSeq(data, LAMBDA st : st.studentName # "")
       IN  mb_console' = mb_console \cup
              {Say("=== SCRAPING COMPLETED ==="),
               Line("Total students processed / Successfully scraped",
                    IF mb_hasData THEN Len(mb_students) ELSE 0, Len(data), {})}
              \cup { Line("- NAME: K sessions", withTraining[k].recentTraining, 0,
                          {withTraining[k].studentName} \cap {MbNames[j] : j \in DOMAIN MbNames}) :
                       k \in DOMAIN withTraining }
              \cup { Line("- student-NAME-screenshot.png (NAME screenshot)", 0, 0,
                          {withName[k].studentName} \cap {MbNames[j] : j \in DOMAIN MbNames}) :
                       k \in DOMAIN withName }
    /\ mb_pc' = "done"
    /\ UNCHANGED <<run, mb_students, mb_i, allStudentData, mb_hasData, mb_opsOrder, mb_quiet>>

MbInit ==
    /\ mb_students \in MbStudentLists
    /\ mb_i = 0
    /\ mb_pc = "start"
    /\ allStudentData = <<>>
    /\ mb_hasData = FALSE
    /\ mb_opsOrder = <<>>

MbIdle ==
    /\ mb_students = <<>>
    /\ mb_i = 0
    /\ mb_pc = "idle"
    /\ allStudentData = <<>>
    /\ mb_hasData = FALSE
    /\ mb_opsOrder = <<>>

\* ---------------------------------------------------------------------
\* AlphaRead scraper run (alphareadscraper/multi-email-scraper.js:
\* scrapeMultipleStudents, uploadBatchToSupabase) and upload-existing-data.js
\* ---------------------------------------------------------------------
ArStudentNames == <<"Amy Poe", "Bob Fox", "Cy Hart", "Di Lane">>

ArTargetLists ==
    { [i \in 1..n |-> [email |-> ArEmails[i], name |-> ArStudentNames[i]]] : n \in 0..MaxStudents }

searchSelectors ==
    <<"input[placeholder*=Search]", "input#search[placeholder=Search...][type=search]">>

maxAttempts == 2

NoFile == [exists |-> FALSE, students |-> <<>>]

\* end of an iteration of the for-of loop
NextTarget(k, n) ==
    IF k < n THEN [pc |-> "goto", k |-> k + 1] ELSE [pc |-> "report", k |-> k]

\* the outer catch (lines 1011-1013) only logs; the loop goes on
NextTargetAfterError(k, n) == NextTarget(k, n)

\* a note of the student's outcome that is lost
NoteOutcome_Lost(outcomes, kind) == outcomes

\* the student's outcome is on record: pushed to results or written to the console
NoteOutcome(outcomes, kind) == Append(outcomes, kind)

ar_db_quiet == <<student_data, membean_students, db_nextId, db_hasIndex, now, ar_uploaded,
                 mb_inserted, up_calls, ar_uploadCfg, mb_supabaseOn, mb_console>>

ub_quiet == <<ub_list, ub_i, ub_results, ub_outcomes, ub_caller>>

EmptyResults == [successful |-> 0, failed |-> 0, errors |-> <<>>]

\* scrapeMultipleStudents up to the loop: credentials, getTargetEmails, login,
\* navigation to Student Management
ArStart ==
    /\ run = "alpharead" /\ ar_pc = "start"
    /\ \/ /\ ar_console' = ar_console \cup
                {Say("Please configure your login credentials in environment variables")}
          /\ ar_pc' = "done"
          /\ UNCHANGED ar_k
       \/ /\ Len(ar_targets) = 0
          /\ ar_console' = ar_console \cup {Say("No emails found in database, emails.txt, or emails.json")}
          /\ ar_pc' = "done"
          /\ UNCHANGED ar_k
       \/ /\ Len(ar_targets) > 0
          /\ ar_console' = ar_console \cup
                {Line("Starting multi-student scraper for N students...", Len(ar_targets), 0, {}),
                 Say("Logging in to Alpha Read..."), Say("Login failed - still on:"),
                 Say("Multi-student scraping failed:"), Say("Browser closed")}
          /\ ar_pc' = "failed"
          /\ UNCHANGED ar_k
       \/ /\ Len(ar_targets) > 0
          /\ ar_console' = ar_console \cup
                {Line("Starting multi-student scraper for N students...", Len(ar_targets), 0, {}),
                 Say("Logging in to Alpha Read..."), Say("Login successful - redirected to:"),
                 Say("Navigating to Student Management..."),
                 Say("Searching for target students using specified search element...")}
          /\ ar_pc' = "goto"
          /\ ar_k' = 1
    /\ UNCHANGED <<run, ar_targets, ar_results, ar_processed, ar_sel, ar_attempt, ar_outcome,
                   ar_opsOrder, ar_file, ub_quiet, ar_db_quiet>>

\* top of the loop body: fresh student management page (lines 785-808)
ArGotoStudents ==
    /\ run = "alpharead" /\ ar_pc = "goto"
    /\ LET head == {Line("Searching for student (P/N)", ar_processed + 1, Len(ar_targets), {})}
       IN  \/ /\ \E hasSearchElements \in BOOLEAN :
                    ar_console' = ar_console \cup head \cup
                        (IF hasSearchElements THEN {}
                         ELSE {Say("No search elements found on URL"), Say("Available inputs:")})
              /\ ar_pc' = "search"
              /\ ar_sel' = 1
              /\ ar_attempt' = 0
              /\ UNCHANGED <<ar_k, ar_outcome>>
           \/ /\ ar_console' = ar_console \cup head \cup {Say("Error searching for student:")}
              /\ ar_outcome' = NoteOutcome(ar_outcome, "search_error")
              /\ ar_pc' = NextTargetAfterError(ar_k, Len(ar_targets)).pc
              /\ ar_k' = NextTargetAfterError(ar_k, Len(ar_targets)).k
              /\ UNCHANGED <<ar_sel, ar_attempt>>
    /\ ar_opsOrder' = Touch(ar_opsOrder, ar_k)
    /\ UNCHANGED <<run, ar_targets, ar_results, ar_processed, ar_file, ub_quiet, ar_db_quiet>>

\* the lines a search prints when the page has a submit button, and when the
\* network does not settle (lines 846-858)
SearchExtras ==
    SUBSET {Say("Found search button, clicking it too..."), Say("Network settle timeout, continuing...")}

\* one pass of the attempt loop that does not find the student, and the step
\* of the two nested loops after it (lines 815-1009)
ArSearchMiss ==
    /\ run = "alpharead" /\ ar_pc = "search"
    /\ \E how \in {"no input", "not found", "not found, throws", "throws"}, extra \in SearchExtras :
          LET retry == IF ar_attempt > 0 THEN {Line("Retry attempt A for selector: S", ar_attempt + 1, 0, {})}
                       ELSE {}
              tried == CASE how = "no input" ->
                              {Say("Trying search element: S"),
                               Say("Search input not found with selector: S")}
                         [] how = "not found" ->
                              {Say("Trying search element: S"), Say("Found search input"),
                               Say("Student not found with selector: S")} \cup extra
                         [] how = "not found, throws" ->
                              {Say("Trying search element: S"), Say("Found search input"),
                               Say("Student not found with selector: S"),
                               Say("Error with selector S:")} \cup extra
                         [] OTHER -> {Say("Error with selector S:")}
              exhausted == ar_attempt + 1 >= maxAttempts /\ ar_sel >= Len(searchSelectors)
          IN  /\ ar_console' = ar_console \cup retry \cup tried \cup
                     (IF exhausted THEN {Say("Student not found with any search method")} ELSE {})
              /\ IF exhausted
                 THEN /\ ar_outcome' = NoteOutcome(ar_outcome, "not_found")
                      /\ ar_pc' = NextTarget(ar_k, Len(ar_targets)).pc
                      /\ ar_k' = NextTarget(ar_k, Len(ar_targets)).k
                      /\ ar_sel' = 1 /\ ar_attempt' = 0
                 ELSE /\ IF ar_attempt + 1 < maxAttempts
                         THEN ar_attempt' = ar_attempt + 1 /\ UNCHANGED ar_sel
                         ELSE ar_attempt' = 0 /\ ar_sel' = ar_sel + 1
                      /\ UNCHANGED <<ar_outcome, ar_pc, ar_k>>
    /\ ar_opsOrder' = Touch(ar_opsOrder, ar_k)
    /\ UNCHANGED <<run, ar_targets, ar_results, ar_processed, ar_file, ub_quiet, ar_db_quiet>>

\* a pass of the attempt loop that finds the student's row (lines 928-930)
ArSearchHit ==
    /\ run = "alpharead" /\ ar_pc = "search"
    /\ \E extra \in SearchExtras : ar_console' = ar_console \cup extra \cup
          (IF ar_attempt > 0 THEN {Line("Retry attempt A for selector: S", ar_attempt + 1, 0, {})}
           ELSE {})
          \cup {Say("Trying search element: S"), Say("Found search input"),
                Say("Found target student")}
    /\ ar_pc' = "details"
    /\ ar_opsOrder' = Touch(ar_opsOrder, ar_k)
    /\ UNCHANGED <<run, ar_targets, ar_k, ar_results, ar_processed, ar_sel, ar_attempt,
                   ar_outcome, ar_file, ub_quiet, ar_db_quiet>>

\* the Details page, extractStudentDetailData and the push to results
\* (lines 932-989); extractStudentDetailData catches its own errors and
\* returns {email, error, scrapedAt: ISO}, of which organizedStudentData
\* keeps email and scrapedAt
ArScrapeDetails ==
    /\ run = "alpharead" /\ ar_pc = "details"
    /\ LET email == ar_targets[ar_k].email
           head == {Say("Going to Details page for student")}
       IN  \/ /\ ar_console' = ar_console \cup head \cup
                     {Say("Navigated to Details page"), Say("Extracting data for student"),
                      Say("Data extracted for student (no screenshot)"),
                      Say("Successfully scraped data for student")}
              /\ ar_results' = Append(ar_results,
                     [email |-> email, scrapedAt |-> [fmt |-> "us", day |-> 1, hour |-> 9],
                      averageScore |-> "62.2%", error |-> NoError])
              /\ ar_outcome' = NoteOutcome(ar_outcome, "scraped")
           \/ /\ ar_console' = ar_console \cup head \cup
                     {Say("Navigated to Details page"), Say("Extracting data for student"),
                      Say("Error extracting data for student:"),
                      Say("Successfully scraped data for student")}
              /\ ar_results' = Append(ar_results,
                     [email |-> email, scrapedAt |-> [fmt |-> "iso", day |-> 1, hour |-> 9],
                      averageScore |-> "", error |-> NoError])
              /\ ar_outcome' = NoteOutcome(ar_outcome, "extract_error")
           \/ /\ ar_console' = ar_console \cup head \cup {Say("Error scraping student:")}
              /\ ar_results' = Append(ar_results,
                     [email |-> email, scrapedAt |-> [fmt |-> "us", day |-> 1, hour |-> 9],
                      averageScore |-> "", error |-> "Timeout"])
              /\ ar_outcome' = NoteOutcome(ar_outcome, "scrape_error")
    /\ ar_processed' = ar_processed + 1
    /\ ar_pc' = NextTarget(ar_k, Len(ar_targets)).pc
    /\ ar_k' = NextTarget(ar_k, Len(ar_targets)).k
    /\ ar_sel' = 1 /\ ar_attempt' = 0
    /\ ar_opsOrder' = Touch(ar_opsOrder, ar_k)
    /\ UNCHANGED <<run, ar_targets, ar_file, ub_quiet, ar_db_quiet>>

\* after the loop: final results, the data file, and the start of the upload
\* (lines 1016-1068)
ArReport ==
    /\ run = "alpharead" /\ ar_pc = "report"
    /\ LET final == {Line("FINAL RESULTS: searched / processed", Len(ar_targets), ar_processed, {}),
                     Line("Not found: N students", Len(ar_targets) - ar_processed, 0, {})}
           saved == {Say("All data saved to: FILE"),
                     Line("Successfully processed N students", Len(ar_results), 0, {})}
       IN  IF Len(ar_results) = 0
           THEN /\ ar_console' = ar_console \cup final \cup
                      {Say("No students were found and scraped"), Say("No data to save"),
                       Say("Browser closed"), Say("Multi-student scraping completed")}
                /\ ar_pc' = "done"
                /\ UNCHANGED <<ar_file, ub_quiet>>
           ELSE /\ ar_file' = [exists |-> TRUE, students |-> ar_results]
                /\ CASE ar_uploadCfg = "on" ->
                          /\ ar_console' = ar_console \cup final \cup saved \cup
                                {Say("Uploading data to Supabase database..."),
                                 Line("Uploading N students to Supabase...", Len(ar_results), 0, {})}
                          /\ ar_pc' = "batch"
                          /\ ub_list' = ar_results
                          /\ ub_i' = 1
                          /\ ub_results' = EmptyResults
                          /\ ub_outcomes' = <<>>
                          /\ ub_caller' = "scraper"
                     [] ar_uploadCfg = "nocreds" ->
                          /\ ar_console' = ar_console \cup final \cup saved \cup
                                {Say("Uploading data to Supabase database..."),
                                 Say("Batch database upload is disabled"),
                                 Say("Browser closed"), Say("Multi-student scraping completed")}
                          /\ ar_pc' = "done"
                          /\ UNCHANGED ub_quiet
                     [] OTHER ->
                          /\ ar_console' = ar_console \cup final \cup saved \cup
                                {Say("Database upload is disabled (set ENABLE_DATABASE_UPLOAD=true)"),
                                 Say("Browser closed"), Say("Multi-student scraping completed")}
                          /\ ar_pc' = "done"
                          /\ UNCHANGED ub_quiet
    /\ UNCHANGED <<run, ar_targets, ar_k, ar_results, ar_processed, ar_sel, ar_attempt,
                   ar_outcome, ar_opsOrder, ar_db_quiet>>

\* a loop that gives up at the first failed upload
NextRecord_StopOnFailure(i, n, ok) == IF ok THEN i + 1 ELSE n + 1

\* the for-of loop goes to the next record whatever uploadToSupabase returned
NextRecord(i, n, ok) == i + 1

\* one iteration of the loop of uploadBatchToSupabase (lines 140-159)
UploadBatchStep ==
    /\ run = "alpharead" /\ ar_pc = "batch" /\ ub_i <= Len(ub_list)
    /\ LET student == ub_list[ub_i]
       IN  IF student.error # NoError
           THEN /\ ar_console' = ar_console \cup {Say("Skipping student - contains error data")}
                /\ ub_outcomes' = Append(ub_outcomes, "skipped")
                /\ ub_i' = ub_i + 1
                /\ UNCHANGED <<ub_results, student_data, db_nextId, ar_uploaded>>
           ELSE \E env \in RequestOutcomes :
                  LET r == uploadToSupabase(student, student_data, db_nextId, now,
                                            ar_uploadCfg = "on", db_hasIndex, env)
                  IN  /\ ar_console' = ar_console \cup r.lines
                      /\ student_data' = r.table
                      /\ db_nextId' = r.id
                      /\ ar_uploaded' = IF r.success THEN ar_uploaded \cup {student} ELSE ar_uploaded
                      /\ ub_results' =
                            IF r.success
                            THEN [ub_results EXCEPT !.successful = @ + 1]
                            ELSE [ub_results EXCEPT !.failed = @ + 1,
                                     !.errors = Append(@, [email |-> student.email,
                                                           error |-> "upload error"])]
                      /\ ub_outcomes' = Append(ub_outcomes, IF r.success THEN "ok" ELSE "failed")
                      /\ ub_i' = NextRecord(ub_i, Len(ub_list), r.success)
    /\ UNCHANGED <<run, ar_targets, ar_k, ar_pc, ar_results, ar_processed, ar_sel, ar_attempt,
                   ar_outcome, ar_opsOrder, ar_file, ub_list, ub_caller,
                   membean_students, db_hasIndex, now, mb_inserted, up_calls, ar_uploadCfg,
                   mb_supabaseOn, mb_console>>

\* uploadBatchToSupabase returns (lines 161-172), and what its caller prints:
\* scrapeMultipleStudents lines 1061-1063 and 1074-1082, uploadExistingData
\* lines 81-93 and 137
UploadBatchEnd ==
    /\ run = "alpharead" /\ ar_pc = "batch" /\ ub_i > Len(ub_list)
    /\ LET batch == {Line("DATABASE UPLOAD RESULTS", ub_results.successful, ub_results.failed, {})}
                    \cup { Line("   - Student: ERR", 0, 0, {}) : k \in DOMAIN ub_results.errors }
       IN  IF ub_caller = "scraper"
           THEN /\ ar_console' = ar_console \cup batch \cup
                      (IF ub_results.successful > 0
                       THEN {Line("Successfully uploaded N students to database!",
                                  ub_results.successful, 0, {})}
                       ELSE {})
                      \cup {Say("Browser closed"), Say("Multi-student scraping completed")}
                /\ ar_pc' = "done"
           ELSE /\ ar_console' = ar_console \cup batch \cup
                      {Line("Upload completed! Summary", ub_results.successful, ub_results.failed, {}),
                       Say("Upload script completed")}
                      \cup { Line("   - EMAIL: ERR", 0, 0, {ub_results.errors[k].email}) :
                               k \in DOMAIN ub_results.errors }
                /\ ar_pc' = "ue_done"
    /\ UNCHANGED <<run, ar_targets, ar_k, ar_results, ar_processed, ar_sel, ar_attempt,
                   ar_outcome, ar_opsOrder, ar_file, ub_quiet, ar_db_quiet>>

\* upload-existing-data.js on the file the scraper saved, up to its call of
\* uploadBatchToSupabase (lines 6-79)
UploadExistingData ==
    /\ run = "alpharead" /\ ar_pc = "done" /\ ar_file.exists
    /\ LET validStudents == SelectSeq(ar_file.students, LAMBDA st : st.error = NoError)
           errorStudents == SelectSeq(ar_file.students, LAMBDA st : st.error # NoError)
           head == {Say("Looking for existing student data files..."),
                    Say("Using most recent file: FILE"), Say("Reading data from: FILE"),
                    Line("Found N students in file", Len(ar_file.students), 0, {}),
                    Line("Valid students: N", Len(validStudents), 0, {})}
                   \cup (IF Len(errorStudents) > 0
                         THEN {Line("Students with errors (will be skipped): N", Len(errorStudents), 0, {})}
                         ELSE {})
                   \cup { Line("   - EMAIL: ERR", 0, 0, {errorStudents[k].email}) :
                            k \in DOMAIN errorStudents }
       IN  IF Len(validStudents) = 0
           THEN /\ ar_console' = ar_console \cup head \cup
                      {Say("No valid students to upload"), Say("Upload script completed")}
                /\ ar_pc' = "ue_done"
                /\ UNCHANGED ub_quiet
           ELSE IF ar_uploadCfg # "on"
           THEN /\ ar_console' = ar_console \cup head \cup
                      {Say("Starting upload to Supabase..."),
                       Say("Batch database upload is disabled"),
                       Say("Upload completed! Summary: undefined"), Say("Upload script completed")}
                /\ ar_pc' = "ue_done"
                /\ UNCHANGED ub_quiet
           ELSE /\ ar_console' = ar_console \cup head \cup
                      {Say("Starting upload to Supabase..."),
                       Line("Uploading N students to Supabase...", Len(validStudents), 0, {})}
                /\ ar_pc' = "batch"
                /\ ub_list' = validStudents
                /\ ub_i' = 1
                /\ ub_results' = EmptyResults
                /\ ub_outcomes' = <<>>
                /\ ub_caller' = "existing"
    /\ UNCHANGED <<run, ar_targets, ar_k, ar_results, ar_processed, ar_sel, ar_attempt,
                   ar_outcome, ar_opsOrder, ar_file, ar_db_quiet>>

ArInit ==
    /\ ar_targets \in ArTargetLists
    /\ ar_k = 0
    /\ ar_pc = "start"
    /\ ar_results = <<>>
    /\ ar_processed = 0
    /\ ar_sel = 1
    /\ ar_attempt = 0
    /\ ar_outcome = <<>>
    /\ ar_opsOrder = <<>>
    /\ ar_file = NoFile
    /\ ub_list = <<>>
    /\ ub_i = 1
    /\ ub_results = EmptyResults
    /\ ub_outcomes = <<>>
    /\ ub_caller = "none"

ArIdle ==
    /\ ar_targets = <<>>
    /\ ar_k = 0
    /\ ar_pc = "idle"
    /\ ar_results = <<>>
    /\ ar_processed = 0
    /\ ar_sel = 1
    /\ ar_attempt = 0
    /\ ar_outcome = <<>>
    /\ ar_opsOrder = <<>>
    /\ ar_file = NoFile
    /\ ub_list = <<>>
    /\ ub_i = 1
    /\ ub_results = EmptyResults
    /\ ub_outcomes = <<>>
    /\ ub_caller = "none"

\* ---------------------------------------------------------------------
\* Claims about the uploads
\* ---------------------------------------------------------------------
RowContent(row) ==
    [url |-> row.url, timestamp |-> row.timestamp, student_name |-> row.student_name,
     recent_training |-> row.recent_training]

RowsOf(content) == { row \in membean_students : RowContent(row) = content }

\* C2: student_data never holds two rows with the same email and scraped_at,
\* and uploading a student record that was already uploaded adds no row:
\* there is at most one row per distinct record uploaded.
C2_NoDuplicateUploads ==
    /\ \A r1, r2 \in student_data :
          (r1.email = r2.email /\ r1.scraped_at = r2.scraped_at) => r1 = r2
    /\ Cardinality(student_data) <= Cardinality(ar_uploaded)

\* C3 as claimed: the Membean write is an upsert, so a record uploaded twice
\* is in membean_students once, as after a single upload.
C3_UploadTwiceSameRows ==
    \A c \in MembeanRowContents : mb_inserted[c] >= 1 => Cardinality(RowsOf(c)) = 1

\* C3 as amended: the Membean write is a plain insert; every successful upload
\* adds one row per valid record, so membean_students holds as many rows for a
\* record as there were successful uploads containing it.
C3_InsertAddsRowPerUpload ==
    \A c \in MembeanRowContents : Cardinality(RowsOf(c)) = mb_inserted[c]

\* the same record has been uploaded twice and is in the table twice
C3_Witness ==
    \E c \in MembeanRowContents : mb_inserted[c] = 2 /\ Cardinality(RowsOf(c)) = 2

\* ---------------------------------------------------------------------
\* upload-existing-data.js without a file argument: the choice of the file
\* (uploadExistingData lines 21-45).  A file is known by the time of the
\* scrape that wrote it; its name is student-data-<getCentralTimeForFilename>.json
\* ---------------------------------------------------------------------
ScrapeTimes == [year : {2024, 2025}, month : {1, 12}, day : {1, 31}, hour : {9, 15}]

\* 'MM/DD/YYYY, HH:mm:ss.fff' with the separators replaced: the two-digit and
\* four-digit fields of the name, in the order they are printed
getCentralTimeForFilename(t) == <<t.month, t.day, t.year, t.hour>>

\* string comparison of two names of the same fixed-width format
NameBefore(a, b) ==
    \E i \in 1..Len(a) :
        /\ \A j \in 1..(i - 1) : a[j] = b[j]
        /\ a[i] < b[i]

RECURSIVE Sort(_)
\* Array.prototype.sort() on a set of distinct names: ascending
Sort(names) ==
    IF names = {} THEN <<>>
    ELSE LET least == CHOOSE x \in names : \A y \in names \ {x} : NameBefore(x, y)
         IN  <<least>> \o Sort(names \ {least})

Reverse(seq) == [i \in 1..Len(seq) |-> seq[Len(seq) + 1 - i]]

\* jsonFile = files[0]
FirstFile(files) == files[1]

NoJsonFile == <<>>

\* readdirSync('.').filter(...).sort().reverse(), then jsonFile = files[0]
UeSelectFile ==
    /\ ue_pc = "start"
    /\ LET files == Reverse(Sort({ getCentralTimeForFilename(t) : t \in ue_dir }))
       IN  /\ ue_files' = files
           /\ IF Len(files) = 0
              THEN ue_jsonFile' = NoJsonFile /\ ue_pc' = "no files"
              ELSE ue_jsonFile' = FirstFile(files) /\ ue_pc' = "selected"
    /\ UNCHANGED ue_dir

\* readFileSync(jsonFile) and JSON.parse (lines 47-55)
UeReadFile ==
    /\ ue_pc = "selected"
    /\ \E valid \in BOOLEAN : ue_pc' = IF valid THEN "read" ELSE "invalid"
    /\ UNCHANGED <<ue_dir, ue_files, ue_jsonFile>>

UeInit ==
    /\ ue_dir \in { d \in SUBSET ScrapeTimes : Cardinality(d) <= MaxFiles }
    /\ ue_files = <<>>
    /\ ue_jsonFile = NoJsonFile
    /\ ue_pc = "start"

UeIdle ==
    /\ ue_dir = {}
    /\ ue_files = <<>>
    /\ ue_jsonFile = NoJsonFile
    /\ ue_pc = "idle"

\* the order of the scrapes in time
ScrapedBefore(a, b) ==
    \/ a.year < b.year
    \/ a.year = b.year /\ a.month < b.month
    \/ a.year = b.year /\ a.month = b.month /\ a.day < b.day
    \/ a.year = b.year /\ a.month = b.month /\ a.day = b.day /\ a.hour < b.hour

\* C11: without a file argument upload-existing-data takes the
\* student-data-*.json file with the latest scrape time, whatever files the
\* directory holds.
C11_SelectsLatestScrape ==
    ue_pc \in {"selected", "read", "invalid"} =>
        \E t \in ue_dir :
            /\ ue_jsonFile = getCentralTimeForFilename(t)
            /\ \A u \in ue_dir : ~ScrapedBefore(t, u)

\* ---------------------------------------------------------------------
\* The unified workflow (All Scrapers Unified): the jobs membean and
\* alpharead run in parallel, each on its own checkout, and end with the
\* step 'Commit and push data'.  A commit is known by the job that made it;
\* the jobs add different files, so a rebase never conflicts.
\* ---------------------------------------------------------------------
GitJobs == { [job |-> j, run |-> r] : j \in {"membean", "alpharead"}, r \in 1..MaxRuns }

IsPrefix(a, b) == Len(a) <= Len(b) /\ \A i \in 1..Len(a) : a[i] = b[i]

InSeq(x, seq) == \E i \in DOMAIN seq : seq[i] = x

\* actions/checkout@v4 with fetch-depth: 0
GitCheckout(j) ==
    /\ job_pc[j] = "checkout"
    /\ job_branch' = [job_branch EXCEPT ![j] = origin_main]
    /\ job_pc' = [job_pc EXCEPT ![j] = "commit"]
    /\ UNCHANGED <<origin_main, job_committed>>

\* the scraper run, then: git add ...; git diff --staged --quiet || git commit
GitCommit(j) ==
    /\ job_pc[j] = "commit"
    /\ \E newData \in BOOLEAN :
          /\ job_branch' = [job_branch EXCEPT ![j] = IF newData THEN Append(@, j) ELSE @]
          /\ job_committed' = [job_committed EXCEPT ![j] = newData]
    /\ job_pc' = [job_pc EXCEPT ![j] = "pull"]
    /\ UNCHANGED origin_main

\* git pull --rebase origin main: the local commits replayed on what
\* origin/main holds at the time of the fetch
GitPullRebase(j) ==
    /\ job_pc[j] = "pull"
    /\ job_branch' = [job_branch EXCEPT ![j] =
          origin_main \o SelectSeq(@, LAMBDA c : ~InSeq(c, origin_main))]
    /\ job_pc' = [job_pc EXCEPT ![j] = "push"]
    /\ UNCHANGED <<origin_main, job_committed>>

\* git push: accepted when it is a fast-forward of origin/main, rejected
\* otherwise; the step runs under bash -e, so a rejected push fails the job
GitPush(j) ==
    /\ job_pc[j] = "push"
    /\ IF IsPrefix(origin_main, job_branch[j])
       THEN /\ origin_main' = job_branch[j]
            /\ job_pc' = [job_pc EXCEPT ![j] = "pushed"]
       ELSE /\ job_pc' = [job_pc EXCEPT ![j] = "rejected"]
            /\ UNCHANGED origin_main
    /\ UNCHANGED <<job_branch, job_committed>>

GitInit ==
    /\ origin_main = << >>
    /\ job_branch = [j \in GitJobs |-> << >>]
    /\ job_committed = [j \in GitJobs |-> FALSE]
    /\ job_pc \in [GitJobs -> {"checkout", "not started"}]

GitIdle ==
    /\ origin_main = << >>
    /\ job_branch = [j \in GitJobs |-> << >>]
    /\ job_committed = [j \in GitJobs |-> FALSE]
    /\ job_pc = [j \in GitJobs |-> "idle"]

\* C13: when jobs of the unified workflow commit data and run
\* 'git pull --rebase origin main' and 'git push' concurrently, every job's
\* push is accepted and, once a job has pushed, its commit is on main.
C13_EveryPushAccepted ==
    \A j \in GitJobs :
        job_committed[j] =>
            /\ job_pc[j] # "rejected"
            /\ job_pc[j] = "pushed" => InSeq(j, origin_main)

\* ---------------------------------------------------------------------
\* Claims about a scraper run
\* ---------------------------------------------------------------------
InOrder(n) == [k \in 1..n |-> k]

MbLoopOver == run = "membean" /\ mb_hasData /\ mb_pc \in {"finish", "upload", "main", "done"}

ArLoopOver == run = "alpharead" /\ ar_k > 0 /\ ar_pc \in {"report", "batch", "done", "ue_done"}

MbFailureLogged ==
    \A k \in DOMAIN allStudentData :
        /\ allStudentData[k].error = "Timeout" => CatchLine(mb_students[k]) \in mb_console
        /\ allStudentData[k].error = "not_found" =>
               Line("Skipping NAME - not found", 0, 0, {mb_students[k]}) \in mb_console

ArFailureLine(kind) ==
    CASE kind = "not_found" -> Say("Student not found with any search method")
      [] kind = "search_error" -> Say("Error searching for student:")
      [] kind = "scrape_error" -> Say("Error scraping student:")
      [] kind = "extract_error" -> Say("Error extracting data for student:")
      [] OTHER -> Say("Successfully scraped data for student")

ArFailureLogged == \A k \in DOMAIN ar_outcome : ArFailureLine(ar_outcome[k]) \in ar_console

\* C1: in the Membean scraper and in the AlphaRead scraper a failure while
\* processing one student is logged and never aborts the run: a run fails
\* only before its first student, and when the loop is over every student
\* of the target list has been attempted, in the list's order.
C1_FailureNeverAbortsRun ==
    /\ MbLoopOver => mb_opsOrder = InOrder(Len(mb_students))
    /\ mb_pc = "failed" => mb_opsOrder = <<>>
    /\ MbFailureLogged
    /\ ArLoopOver => ar_opsOrder = InOrder(Len(ar_targets))
    /\ ar_pc = "failed" => ar_opsOrder = <<>>
    /\ ArFailureLogged

\* C1 witness: a finished Membean run of two students whose first student
\* threw, with both students attempted.
C1_Witness ==
    /\ run = "membean" /\ mb_pc = "done"
    /\ Len(mb_students) = 2
    /\ Len(allStudentData) = 2
    /\ allStudentData[1].error = "Timeout"
    /\ mb_opsOrder = <<1, 2>>

\* C4: within one scraper run students are processed one at a time in the
\* order of the target list: the students for whom page operations were made
\* are 1, 2, ..., each in one uninterrupted block, and the operations for a
\* student begin only when the outcome of every student before it is on record.
C4_OneStudentAtATime ==
    /\ Len(mb_opsOrder) <= Len(mb_students)
    /\ mb_opsOrder = InOrder(Len(mb_opsOrder))
    /\ Len(allStudentData) >= Len(mb_opsOrder) - 1
    /\ Len(allStudentData) <= Len(mb_opsOrder)
    /\ \A k \in DOMAIN allStudentData : allStudentData[k].studentName \in PageNames(mb_students[k])
    /\ Len(ar_opsOrder) <= Len(ar_targets)
    /\ ar_opsOrder = InOrder(Len(ar_opsOrder))
    /\ Len(ar_outcome) >= Len(ar_opsOrder) - 1
    /\ Len(ar_outcome) <= Len(ar_opsOrder)

\* C4 witness: the AlphaRead scraper is searching for its second student,
\* the first one's outcome being on record.
C4_Witness ==
    /\ run = "alpharead" /\ ar_pc = "search" /\ ar_k = 2
    /\ ar_opsOrder = <<1, 2>>
    /\ Len(ar_outcome) = 1

\* C5: the console output of a Membean scrape run contains no student names
\* (no line interpolates a student's name, so that runs differing only in the
\* names print the same lines).
C5_NoStudentNameOnMembeanConsole == \A l \in mb_console : l.who = {}

\* C6: the console output of the AlphaRead scrape and of its database upload
\* paths contains no student name and no student e-mail address (no line
\* interpolates one, so that runs differing only in them print the same lines).
C6_NoEmailOnAlphaReadConsole == \A l \in ar_console : l.who = {}

\* ---------------------------------------------------------------------
\* Claims about uploadBatchToSupabase
\* ---------------------------------------------------------------------
BatchReturned == ub_caller # "none" /\ (ar_pc # "batch" \/ ub_i > Len(ub_list))

CleanRecords == { k \in DOMAIN ub_list : ub_list[k].error = NoError }

FailedRecords == { k \in DOMAIN ub_outcomes : ub_outcomes[k] = "failed" }

FailedEmails ==
    LET failed == SelectSeq(ub_list, LAMBDA st : \E k \in FailedRecords : ub_list[k] = st)
    IN  [k \in DOMAIN failed |-> failed[k].email]

\* C12: uploadBatchToSupabase, with upload enabled, attempts every record
\* that carries no error even when earlier uploads failed; when it returns,
\* successful + failed is the number of such records and errors holds one
\* entry per failed upload, for the record that failed.
C12_BatchCountsEveryRecord ==
    BatchReturned =>
        /\ Len(ub_outcomes) = Len(ub_list)
        /\ \A k \in DOMAIN ub_list :
               (ub_outcomes[k] \in {"ok", "failed"}) <=> (k \in CleanRecords)
        /\ ub_results.successful + ub_results.failed = Cardinality(CleanRecords)
        /\ ub_results.failed = Cardinality(FailedRecords)
        /\ Len(ub_results.errors) = ub_results.failed
        /\ [k \in DOMAIN ub_results.errors |-> ub_results.errors[k].email] = FailedEmails

\* C12 witness: a batch has returned in which the first upload failed and a
\* later one succeeded.
C12_Witness ==
    /\ BatchReturned
    /\ Len(ub_list) >= 2
    /\ ub_outcomes[1] = "failed"
    /\ ub_results.successful >= 1
    /\ ub_results.failed >= 1

vars == <<sm_vars, te_vars, db_vars, mb_vars, ar_vars, ue_vars, git_vars>>

SmIdle ==
    /\ sm_supabase = [configured |-> FALSE, outcome |-> "rows", rows |-> <<>>]
    /\ sm_txt = [state |-> "absent", lines |-> <<>>]
    /\ sm_json = [state |-> "absent", students |-> <<>>]
    /\ sm_result = <<>>
    /\ sm_source = "none"
    /\ sm_pc = "idle"

TeIdle ==
    /\ te_db = [client |-> FALSE, outcome |-> "rows", table |-> <<>>]
    /\ te_txt = [state |-> "missing", lines |-> <<>>]
    /\ te_json = [state |-> "missing", emails |-> <<>>]
    /\ te_result = <<>>
    /\ te_source = "none"
    /\ te_pc = "idle"

\* getEnabledStudents applied to every combination of its sources
StudentsInit == run = "students" /\ SmInit /\ TeIdle /\ DbIdle /\ MbIdle /\ ArIdle /\ UeIdle /\ GitIdle

StudentsNext == GetEnabledStudents /\ UNCHANGED <<te_vars, db_vars, mb_vars, ar_vars, ue_vars, git_vars>>

SpecStudents == StudentsInit /\ [][StudentsNext]_vars

\* getTargetEmails applied to every combination of its sources
EmailsInit == run = "emails" /\ TeInit /\ SmIdle /\ DbIdle /\ MbIdle /\ ArIdle /\ UeIdle /\ GitIdle

EmailsNext == GetTargetEmails /\ UNCHANGED <<sm_vars, db_vars, mb_vars, ar_vars, ue_vars, git_vars>>

SpecEmails == EmailsInit /\ [][EmailsNext]_vars

\* any sequence of uploads by the two scrapers, the clock advancing in between
UploadInit == run = "uploads" /\ DbInit /\ SmIdle /\ TeIdle /\ MbIdle /\ ArIdle /\ UeIdle /\ GitIdle

UploadNext ==
    \/ AlphaUpload /\ UNCHANGED <<sm_vars, te_vars, mb_vars, ar_vars, ue_vars, git_vars>>
    \/ MembeanUpload /\ UNCHANGED <<sm_vars, te_vars, mb_vars, ar_vars, ue_vars, git_vars>>
    \/ Tick /\ UNCHANGED <<sm_vars, te_vars, mb_vars, ar_vars, ue_vars, git_vars>>

SpecUpload == UploadInit /\ [][UploadNext]_vars

\* a run of one scraper script: the Membean scraper, or the AlphaRead scraper
\* and then upload-existing-data on the file it saved
ScrapeInit ==
    /\ SmIdle /\ TeIdle /\ UeIdle /\ GitIdle
    /\ student_data = {} /\ membean_students = {} /\ db_nextId = 1 /\ now = ClockStart
    /\ ar_uploaded = {} /\ mb_inserted = [r \in MembeanRowContents |-> 0] /\ up_calls = 0
    /\ ar_console = {} /\ mb_console = {}
    /\ \/ /\ run = "membean" /\ MbInit /\ ArIdle
          /\ mb_supabaseOn \in BOOLEAN
          /\ ar_uploadCfg = "off" /\ db_hasIndex = TRUE
       \/ /\ run = "alpharead" /\ ArInit /\ MbIdle
          /\ ar_uploadCfg \in {"off", "nocreds", "on"}
          /\ db_hasIndex \in BOOLEAN
          /\ mb_supabaseOn = FALSE

ScrapeNext ==
    \/ MbStart /\ UNCHANGED <<sm_vars, te_vars, ar_vars, ue_vars, git_vars>>
    \/ MbNavigateToStudentsTab /\ UNCHANGED <<sm_vars, te_vars, ar_vars, ue_vars, git_vars>>
    \/ MbClickStudentByName /\ UNCHANGED <<sm_vars, te_vars, ar_vars, ue_vars, git_vars>>
    \/ MbScrapeStudentData /\ UNCHANGED <<sm_vars, te_vars, ar_vars, ue_vars, git_vars>>
    \/ MbNavigateBackToClass /\ UNCHANGED <<sm_vars, te_vars, ar_vars, ue_vars, git_vars>>
    \/ MbFinish /\ UNCHANGED <<sm_vars, te_vars, ar_vars, ue_vars, git_vars>>
    \/ MbUpload /\ UNCHANGED <<sm_vars, te_vars, ar_vars, ue_vars, git_vars>>
    \/ MbMain /\ UNCHANGED <<sm_vars, te_vars, ar_vars, ue_vars, git_vars>>
    \/ ArStart /\ UNCHANGED <<sm_vars, te_vars, mb_students, mb_i, mb_pc, allStudentData, mb_hasData, mb_opsOrder, ue_vars, git_vars>>
    \/ ArGotoStudents /\ UNCHANGED <<sm_vars, te_vars, mb_students, mb_i, mb_pc, allStudentData, mb_hasData, mb_opsOrder, ue_vars, git_vars>>
    \/ ArSearchMiss /\ UNCHANGED <<sm_vars, te_vars, mb_students, mb_i, mb_pc, allStudentData, mb_hasData, mb_opsOrder, ue_vars, git_vars>>
    \/ ArSearchHit /\ UNCHANGED <<sm_vars, te_vars, mb_students, mb_i, mb_pc, allStudentData, mb_hasData, mb_opsOrder, ue_vars, git_vars>>
    \/ ArScrapeDetails /\ UNCHANGED <<sm_vars, te_vars, mb_students, mb_i, mb_pc, allStudentData, mb_hasData, mb_opsOrder, ue_vars, git_vars>>
    \/ ArReport /\ UNCHANGED <<sm_vars, te_vars, mb_students, mb_i, mb_pc, allStudentData, mb_hasData, mb_opsOrder, ue_vars, git_vars>>
    \/ UploadBatchStep /\ UNCHANGED <<sm_vars, te_vars, mb_students, mb_i, mb_pc, allStudentData, mb_hasData, mb_opsOrder, ue_vars, git_vars>>
    \/ UploadBatchEnd /\ UNCHANGED <<sm_vars, te_vars, mb_students, mb_i, mb_pc, allStudentData, mb_hasData, mb_opsOrder, ue_vars, git_vars>>
    \/ UploadExistingData /\ UNCHANGED <<sm_vars, te_vars, mb_students, mb_i, mb_pc, allStudentData, mb_hasData, mb_opsOrder, ue_vars, git_vars>>

SpecScrape == ScrapeInit /\ [][ScrapeNext]_vars

\* upload-existing-data.js started without a file argument in a directory
\* holding any set of student-data files
ExistingInit ==
    /\ run = "existing" /\ UeInit /\ SmIdle /\ TeIdle /\ DbIdle /\ MbIdle /\ ArIdle /\ GitIdle

ExistingNext ==
    \/ UeSelectFile /\ UNCHANGED <<sm_vars, te_vars, db_vars, mb_vars, ar_vars, git_vars>>
    \/ UeReadFile /\ UNCHANGED <<sm_vars, te_vars, db_vars, mb_vars, ar_vars, git_vars>>

SpecExisting == ExistingInit /\ [][ExistingNext]_vars

\* the jobs of one or more overlapping runs of the unified workflow, each at
\* its own pace
WorkflowInit ==
    /\ run = "workflow" /\ GitInit
    /\ SmIdle /\ TeIdle /\ DbIdle /\ MbIdle /\ ArIdle /\ UeIdle

WorkflowNext ==
    \/ \E j \in GitJobs : GitCheckout(j) /\ UNCHANGED <<sm_vars, te_vars, db_vars, mb_vars, ar_vars, ue_vars>>
    \/ \E j \in GitJobs : GitCommit(j) /\ UNCHANGED <<sm_vars, te_vars, db_vars, mb_vars, ar_vars, ue_vars>>
    \/ \E j \in GitJobs : GitPullRebase(j) /\ UNCHANGED <<sm_vars, te_vars, db_vars, mb_vars, ar_vars, ue_vars>>
    \/ \E j \in GitJobs : GitPush(j) /\ UNCHANGED <<sm_vars, te_vars, db_vars, mb_vars, ar_vars, ue_vars>>

SpecWorkflow == WorkflowInit /\ [][WorkflowNext]_vars

====
